---- MODULE Spec2Model ----
(***************************************************************************)
(* Model of qiita_high_likes_rss: the retrying fetch layer                 *)
(* (modules/qiita_api.rs), the keyed state store (modules/state.rs) and    *)
(* the run() pipeline of main.rs.                                          *)
(*                                                                         *)
(* Conventions.                                                            *)
(*   Option<T>  : None is <<>>, Some(x) is <<x>>.                          *)
(*   String     : links, ids and keys are sequences of characters;         *)
(*                titles are TLA+ strings (nothing inspects their text).   *)
(*   timestamp  : a timestamp STRING is a record [text, t]; text is        *)
(*                "rfc3339" for a string DateTime::parse_from_rfc3339       *)
(*                accepts (t is then its instant, in ticks), anything else *)
(*                for a string it rejects.                                 *)
(*   HashMap    : a function from keys to StoredItem; the iteration order  *)
(*                of a HashMap is unspecified, so every iteration takes an *)
(*                arbitrary permutation of the keys.                       *)
(***************************************************************************)
EXTENDS Integers, Sequences, FiniteSets, TLC

VARIABLES
    items,      \* StateStore.items of the store in memory
    call,       \* the last library call: its arguments and return value
    pc,         \* position of run() in main.rs
    cfg,        \* AppConfig and Cli flags of the run
    now,        \* Utc::now() taken at main.rs:40
    files,      \* the files on disk: state, out, index, last_build, nojekyll
    disk0,      \* the files on disk as they were when run() started
    net,        \* the fetch in progress: attempts, outcomes, sleeps, result
    feed_items, \* Vec<QiitaItem> returned by fetch_feed
    idx,        \* index of the enrichment loop at main.rs:48
    enriched,   \* Vec<QiitaItem> pushed at main.rs:60
    cnt,        \* fetch_likes_count in progress: page, total, page lengths
    out,        \* (merged, selected items, rendered documents) of the run
    err         \* the AppError kind run() returned, "" when none

vars == <<items, call, pc, cfg, now, files, disk0, net, feed_items, idx, enriched,
          cnt, out, err>>

(***************************************************************************)
(* Bounds of the model                                                     *)
(***************************************************************************)
\* ticks per day: the resolution of the model's clock
TicksPerDay == 1
\* the calls to now() return a tick in 0..MaxNow: one tick more than a day
MaxNow == TicksPerDay + 1
\* the longest candidate sequence handed to merge_from_feed by the store API
MaxCands == 2
\* the largest value of the (reduced-width) unsigned counters
CountMax == 15
\* the longest list of entries handed to build_feed_xml on its own
MaxEntries == 2
\* the longest text after the marker (or after the host) of a parsed link
MaxTail == 3

(***************************************************************************)
(* Option and integer helpers                                              *)
(***************************************************************************)
None == <<>>
Some(x) == <<x>>
IsSome(o) == o # <<>>

\* u32::MAX is 2^32 - 1, beyond the 32-bit signed integers of TLC: the
\* counters of the model saturate at CountMax, a u32 of reduced width
U32Max == CountMax

Min(a, b) == IF a < b THEN a ELSE b

RECURSIVE Pow2(_)
Pow2(n) == IF n <= 0 THEN 1 ELSE 2 * Pow2(n - 1)

\* u32::saturating_add
SaturatingAddWrapping(a, b) == (a + b) % (U32Max + 1)
saturating_add(a, b) == IF a + b > U32Max THEN U32Max ELSE a + b

\* usize::saturating_sub
saturating_sub(a, b) == IF a < b THEN 0 ELSE a - b

(***************************************************************************)
(* Timestamps                                                              *)
(***************************************************************************)
\* DateTime<Utc>::to_rfc3339: the string form of an instant
to_rfc3339(t) == [text |-> "rfc3339", t |-> t]
\* strings that are not RFC 3339 timestamps
GarbageTime == [text |-> "not-a-date", t |-> 0]
EmptyTime == [text |-> "", t |-> 0]

\* state.rs parse_datetime: Option<DateTime<Utc>>
parse_datetime(value) ==
    IF value.text = "rfc3339" THEN Some(value.t) ELSE None

\* chrono Duration::days
Days(n) == n * TicksPerDay

(***************************************************************************)
(* Strings that the code inspects: links and ids                           *)
(***************************************************************************)
Marker == <<"/", "i", "t", "e", "m", "s", "/">>
LinkBase == <<"h", "/", "u">>
\* "h/u/items/x", "h/u/items/x?r" (same article, other link), "h/u/items/y"
LinkX == LinkBase \o Marker \o <<"x">>
LinkXq == LinkBase \o Marker \o <<"x", "?", "r">>
LinkY == LinkBase \o Marker \o <<"y">>
\* "h/u/p", a link without the marker, and the empty link
LinkPlain == LinkBase \o <<"/", "p">>
LinkEmpty == <<>>
IdX == <<"x">>
IdY == <<"y">>

(***************************************************************************)
(* QiitaItem and StoredItem                                                *)
(***************************************************************************)
QiitaItem(id, title, link, updated, likes) ==
    [item_id |-> id, title |-> title, link |-> link, summary |-> None,
     published |-> None, updated |-> updated, author_name |-> None,
     likes_count |-> likes]

\* state.rs item_key
item_key(item) ==
    IF IsSome(item.item_id) THEN item.item_id ELSE Some(item.link)

\* the StoredItem built at state.rs:57-68
NewStoredKeepOld(store, key, item, t) ==
    IF key \in DOMAIN store THEN [store[key] EXCEPT !.last_seen = to_rfc3339(t)]
    ELSE [key |-> key, item_id |-> item.item_id, title |-> item.title,
          link |-> item.link, summary |-> item.summary,
          published |-> item.published, updated |-> item.updated,
          author_name |-> item.author_name, likes_count |-> item.likes_count,
          last_seen |-> to_rfc3339(t)]
NewStoredLinkKey(store, key, item, t) ==
    [key |-> item.link, item_id |-> item.item_id, title |-> item.title,
     link |-> item.link, summary |-> item.summary,
     published |-> item.published, updated |-> item.updated,
     author_name |-> item.author_name, likes_count |-> item.likes_count,
     last_seen |-> to_rfc3339(t)]
NewStored(store, key, item, t) ==
    [key |-> key, item_id |-> item.item_id, title |-> item.title,
     link |-> item.link, summary |-> item.summary,
     published |-> item.published, updated |-> item.updated,
     author_name |-> item.author_name, likes_count |-> item.likes_count,
     last_seen |-> to_rfc3339(t)]

\* HashMap::insert
MapInsert(m, k, v) == [x \in DOMAIN m \cup {k} |-> IF x = k THEN v ELSE m[x]]
EmptyMap == [x \in {} |-> 0]
Restrict(m, S) == [x \in S |-> m[x]]

(***************************************************************************)
(* StateStore::load, state.rs:35-48                                        *)
(***************************************************************************)
RECURSIVE LoadItems(_, _)
LoadItems(store, list) ==
    IF list = <<>> THEN store
    ELSE LoadItems(MapInsert(store, Head(list).key, Head(list)), Tail(list))

\* file is None when the path does not exist, else Some(list of StoredItem)
StateStore_load(file) ==
    IF file = None THEN EmptyMap ELSE LoadItems(EmptyMap, file[1])

(***************************************************************************)
(* StateStore::merge_from_feed, state.rs:50-73                             *)
(***************************************************************************)
RECURSIVE merge_loop(_, _, _, _)
merge_loop(store, cands, t, merged) ==
    IF cands = <<>> THEN [items |-> store, merged |-> merged]
    ELSE LET item == Head(cands)
             key == item_key(item)
         IN  IF key = None
             THEN merge_loop(store, Tail(cands), t, merged)
             ELSE merge_loop(MapInsert(store, key[1],
                                       NewStored(store, key[1], item, t)),
                             Tail(cands), t, merged + 1)

merge_from_feed_rebuilding(store, cands, t) == merge_loop(EmptyMap, cands, t, 0)
merge_from_feed(store, cands, t) == merge_loop(store, cands, t, 0)

(***************************************************************************)
(* StateStore::prune, state.rs:75-94                                       *)
(***************************************************************************)
\* the closure of retain, state.rs:77-83
age_keep_lenient(item, cutoff) ==
    LET dt == parse_datetime(item.last_seen)
    IN  IF IsSome(dt) THEN dt[1] >= cutoff ELSE TRUE
age_keep(item, cutoff) ==
    LET dt == parse_datetime(item.last_seen)
    IN  IF IsSome(dt) THEN dt[1] >= cutoff ELSE FALSE

\* the key of sort_by_key at state.rs:87
last_seen_key_by_likes(item, t) == item.likes_count
last_seen_key(item, t) ==
    LET dt == parse_datetime(item.last_seen)
    IN  IF IsSome(dt) THEN dt[1] ELSE t

\* insertion of x into a list sorted by last_seen_key, after its equals:
\* slice::sort_by_key is a stable sort
RECURSIVE InsertByLastSeen(_, _, _)
InsertByLastSeen(sorted, x, t) ==
    IF sorted = <<>> THEN <<x>>
    ELSE IF last_seen_key(x, t) < last_seen_key(Head(sorted), t)
         THEN <<x>> \o sorted
         ELSE <<Head(sorted)>> \o InsertByLastSeen(Tail(sorted), x, t)

RECURSIVE SortByLastSeen(_, _)
SortByLastSeen(list, t) ==
    IF list = <<>> THEN <<>>
    ELSE InsertByLastSeen(SortByLastSeen(SubSeq(list, 1, Len(list) - 1), t),
                          list[Len(list)], t)

\* the orders in which a HashMap with key set S may be iterated
Perms(S) ==
    {f \in [1 .. Cardinality(S) -> S] : \A i, j \in DOMAIN f : f[i] = f[j] => i = j}

\* collect() of (item.key, item) pairs into a HashMap, state.rs:89-92
RECURSIVE CollectByKey(_, _)
CollectByKey(store, list) ==
    IF list = <<>> THEN store
    ELSE CollectByKey(MapInsert(store, Head(list).key, Head(list)), Tail(list))

\* the keys that retain leaves in the map, state.rs:77-83
AgeKept(store, t, max_days) ==
    {k \in DOMAIN store : age_keep(store[k], t - Days(max_days))}

\* order: the iteration order of self.items.values() at state.rs:86
prune_age_only_when_over(store, order, t, max_days, max_items) ==
    IF Cardinality(DOMAIN store) > max_items
    THEN LET cutoff == t - Days(max_days)
             kept == {k \in DOMAIN store : age_keep(store[k], cutoff)}
             list == [i \in 1 .. Len(SelectSeq(order, LAMBDA k : k \in kept))
                        |-> store[SelectSeq(order, LAMBDA k : k \in kept)[i]]]
             sorted == SortByLastSeen(list, t)
             keep == SubSeq(sorted, saturating_sub(Len(sorted), max_items) + 1,
                            Len(sorted))
         IN  IF Cardinality(kept) > max_items
             THEN CollectByKey(EmptyMap, keep) ELSE Restrict(store, kept)
    ELSE store
prune(store, order, t, max_days, max_items) ==
    LET cutoff == t - Days(max_days)
        kept == {k \in DOMAIN store : age_keep(store[k], cutoff)}
        retained == Restrict(store, kept)
        korder == SelectSeq(order, LAMBDA k : k \in kept)
        list == [i \in 1 .. Len(korder) |-> retained[korder[i]]]
        sorted == SortByLastSeen(list, t)
        keep == SubSeq(sorted, saturating_sub(Len(sorted), max_items) + 1,
                       Len(sorted))
    IN  IF Cardinality(kept) > max_items
        THEN CollectByKey(EmptyMap, keep)
        ELSE retained

\* StateStore::to_sorted_vec, state.rs:96-100: the values sorted by key.
\* Keys are compared as Rust compares strings: lexicographically by
\* character, a proper prefix first.
CharRank(c) ==
    CASE c = "/" -> 1 [] c = "?" -> 2 [] c = "e" -> 3 [] c = "h" -> 4
      [] c = "i" -> 5 [] c = "m" -> 6 [] c = "p" -> 7 [] c = "r" -> 8
      [] c = "s" -> 9 [] c = "t" -> 10 [] c = "u" -> 11 [] c = "x" -> 12
      [] c = "y" -> 13 [] OTHER -> 14

RECURSIVE StrLess(_, _)
StrLess(a, b) ==
    IF b = <<>> THEN FALSE
    ELSE IF a = <<>> THEN TRUE
    ELSE IF CharRank(Head(a)) # CharRank(Head(b))
         THEN CharRank(Head(a)) < CharRank(Head(b))
         ELSE StrLess(Tail(a), Tail(b))

RECURSIVE SortedKeys(_)
SortedKeys(S) ==
    IF S = {} THEN <<>>
    ELSE LET least == CHOOSE k \in S : \A o \in S \ {k} : StrLess(k, o)
         IN  <<least>> \o SortedKeys(S \ {least})

to_sorted_vec(store) ==
    [i \in 1 .. Cardinality(DOMAIN store) |-> store[SortedKeys(DOMAIN store)[i]]]

(***************************************************************************)
(* The store used as a library: load, merge_from_feed and prune are public *)
(* and are called with arbitrary arguments (specification StoreSpec).      *)
(***************************************************************************)
\* candidates: the same article seen twice with other fields, a second
\* article, one without an id, and one with neither an id nor a link
CandX1 == QiitaItem(Some(IdX), "T1", LinkX, None, 12)
CandX2 == QiitaItem(Some(IdX), "T2", LinkXq, Some(to_rfc3339(1)), 7)
CandY == QiitaItem(Some(IdY), "T1", LinkY, Some(GarbageTime), 3)
CandPlain == QiitaItem(None, "T1", LinkPlain, None, 5)
CandBare == QiitaItem(None, "T2", LinkEmpty, None, 5)
Candidates == {CandX1, CandX2, CandPlain, CandBare}

SeqsUpTo(S, n) == UNION {[1 .. k -> S] : k \in 0 .. n}

\* state files: a record of an earlier run, records whose last_seen does not
\* parse, and a hand-edited file that repeats a key
StoredOf(item, t) == NewStored(EmptyMap, item_key(item)[1], item, t)
FileOld == <<StoredOf(CandX1, 0), [StoredOf(CandY, 0) EXCEPT !.last_seen = GarbageTime]>>
FileDup == <<StoredOf(CandX1, 1), StoredOf(CandX2, 0),
             [StoredOf(CandPlain, 1) EXCEPT !.last_seen = EmptyTime]>>
StateFiles == {None, Some(FileOld), Some(FileDup)}

\* the instants handed as now: the epoch, one day later, one tick past a day
Nows == {0, TicksPerDay, MaxNow}
MaxDaysChoices == {1}
MaxItemsChoices == {1, 2}

\* size_before is the number of records the store held when the call began
NoCall == [op |-> "new", file |-> None, cands |-> <<>>, now |-> 0,
           max_days |-> 0, max_items |-> 0, ret |-> 0, size_before |-> 0]

RunIdle ==
    /\ pc = "idle"
    /\ cfg = EmptyMap
    /\ now = 0
    /\ files = EmptyMap
    /\ disk0 = EmptyMap
    /\ net = EmptyMap
    /\ feed_items = <<>>
    /\ idx = 0
    /\ enriched = <<>>
    /\ cnt = EmptyMap
    /\ out = EmptyMap
    /\ err = EmptyMap

RunVars == <<pc, cfg, now, files, disk0, net, feed_items, idx, enriched, cnt, out, err>>

StoreInit ==
    /\ items = EmptyMap
    /\ call = NoCall
    /\ RunIdle

\* let store = StateStore::load(path)
StoreLoad ==
    \E file \in StateFiles :
        /\ items' = StateStore_load(file)
        /\ call' = [NoCall EXCEPT !.op = "load", !.file = file,
                                  !.size_before = Cardinality(DOMAIN items)]
        /\ UNCHANGED RunVars

\* store.merge_from_feed(&cands, t)
StoreMerge ==
    \E cands \in SeqsUpTo(Candidates, MaxCands), t \in Nows :
        LET r == merge_from_feed(items, cands, t)
        IN  /\ items' = r.items
            /\ call' = [NoCall EXCEPT !.op = "merge", !.cands = cands,
                                      !.now = t, !.ret = r.merged,
                                      !.size_before = Cardinality(DOMAIN items)]
            /\ UNCHANGED RunVars

\* store.prune(t, max_days, max_items)
StorePrune ==
    \E t \in Nows, d \in MaxDaysChoices, m \in MaxItemsChoices :
      \E order \in Perms(AgeKept(items, t, d)) :
        /\ items' = prune(items, order, t, d, m)
        /\ call' = [NoCall EXCEPT !.op = "prune", !.now = t,
                                  !.max_days = d, !.max_items = m,
                                  !.size_before = Cardinality(DOMAIN items)]
        /\ UNCHANGED RunVars

StoreNext == StoreLoad \/ StoreMerge \/ StorePrune

StoreSpec == StoreInit /\ [][StoreNext]_vars

(***************************************************************************)
(* The fetch layer, qiita_api.rs                                           *)
(***************************************************************************)
MAX_RETRIES == 3

\* an attempt's outcome is [status, body]; status 0 stands for Err(e) of
\* send() (connection failure or timeout), which has no HTTP status
TransportError == 0
Statuses == {TransportError, 200, 401, 404, 429, 503}

is_success(status) == status >= 200 /\ status <= 299
is_server_error(status) == status >= 500 /\ status <= 599

\* qiita_api.rs should_retry
should_retry_any(status) == status # 401
should_retry(status) == is_server_error(status) \/ status = 429

\* qiita_api.rs backoff_duration, in seconds
backoff_duration_off_by_one(attempt) == Pow2(attempt)
backoff_duration(attempt) == Pow2(saturating_sub(attempt, 1))

\* what one pass of the loop of fetch_feed does with the response of
\* attempt number `attempt`, qiita_api.rs:55-99
feed_attempt(status, attempt) ==
    IF status = TransportError
    THEN IF attempt < MAX_RETRIES THEN "retry" ELSE "fail"
    ELSE IF is_success(status) THEN "body"
    ELSE IF should_retry(status) /\ attempt < MAX_RETRIES THEN "retry"
    ELSE "fail"

\* the same for fetch_likes_page, qiita_api.rs:146-195
likes_attempt_retry_401(status, attempt) ==
    IF status = TransportError
    THEN IF attempt < MAX_RETRIES THEN "retry" ELSE "fail"
    ELSE IF is_success(status) THEN "body"
    ELSE IF (should_retry(status) \/ status = 401) /\ attempt < MAX_RETRIES
         THEN "retry"
    ELSE "fail"
likes_attempt(status, attempt) ==
    IF status = TransportError
    THEN IF attempt < MAX_RETRIES THEN "retry" ELSE "fail"
    ELSE IF status = 401 THEN "unauthorized"
    ELSE IF is_success(status) THEN "body"
    ELSE IF should_retry(status) /\ attempt < MAX_RETRIES THEN "retry"
    ELSE "fail"

\* AppError: its kind and which of the messages of the source it carries
NoError == [kind |-> "", msg |-> "", attempt |-> 0]
AppError(kind, msg, attempt) == [kind |-> kind, msg |-> msg, attempt |-> attempt]

\* error.rs AppError::exit_code
exit_code(kind) ==
    CASE kind = "Config" -> 2
      [] kind = "Network" -> 3
      [] kind = "Feed" -> 4
      [] OTHER -> 0

\* a fetch: which function runs it, the outcomes of its attempts so far,
\* the seconds slept after each failed attempt, and how it ended
\* (page is the page query parameter of fetch_likes_page, 0 for the feed)
NoFetch == [fn |-> "", page |-> 0, attempt |-> 0, outcomes |-> <<>>,
            waits |-> <<>>, result |-> "pending", error |-> NoError]
NewFetch(fn, page) == [NoFetch EXCEPT !.fn = fn, !.page = page]

\* the fetch that the next attempt belongs to: a finished fetch is
\* followed by a new one
CurrentFetch(f, fn, page) ==
    IF f.fn = fn /\ f.result = "pending" THEN f ELSE NewFetch(fn, page)

\* the loop body up to the decision: attempt += 1, send, and on "retry"
\* sleep(backoff_duration(attempt))
AfterAttempt(f, outcome, decision) ==
    LET n == f.attempt + 1
    IN  [f EXCEPT !.attempt = n,
                  !.outcomes = Append(f.outcomes, outcome),
                  !.waits = IF decision = "retry"
                            THEN Append(f.waits, backoff_duration(n))
                            ELSE f.waits]

(***************************************************************************)
(* Feed Parser, qiita_api.rs:200-273                                       *)
(***************************************************************************)
\* str::find of a pattern: the least start index, 0 when there is none
RECURSIVE FindFrom(_, _, _)
FindFrom(s, pat, i) ==
    IF i + Len(pat) - 1 > Len(s) THEN 0
    ELSE IF SubSeq(s, i, i + Len(pat) - 1) = pat THEN i
    ELSE FindFrom(s, pat, i + 1)
Find(s, pat) == FindFrom(s, pat, 1)

\* the prefix of s before the first occurrence of character c
CutAt(s, c) ==
    IF Find(s, <<c>>) = 0 THEN s ELSE SubSeq(s, 1, Find(s, <<c>>) - 1)

\* qiita_api.rs extract_item_id
extract_item_id(link) ==
    IF Find(link, Marker) = 0 THEN None
    ELSE LET id_part == SubSeq(link, Find(link, Marker) + Len(Marker), Len(link))
             cut == CutAt(CutAt(id_part, "?"), "#")
         IN  IF cut = <<>> THEN None ELSE Some(cut)

\* an <entry> node: its title, alternate link, updated and published texts
Entry(title, link, updated, published) ==
    [title |-> title, link |-> link, updated |-> updated, published |-> published]

\* qiita_api.rs:209-247: one QiitaItem per entry that has a title and a link
RECURSIVE parse_entries(_)
parse_entries(entries) ==
    IF entries = <<>> THEN <<>>
    ELSE LET e == Head(entries)
         IN  IF e.title = None \/ e.link = None
             THEN parse_entries(Tail(entries))
             ELSE <<[item_id |-> extract_item_id(e.link[1]),
                     title |-> e.title[1], link |-> e.link[1],
                     summary |-> None, published |-> e.published,
                     updated |-> e.updated, author_name |-> None,
                     likes_count |-> 0]>> \o parse_entries(Tail(entries))

\* a fetched document: body is "ok" when the text was read and is XML with
\* a feed element; "unreadable" when resp.text() failed; "notxml" and
\* "nofeed" for the two failures of parse_feed_xml
FeedDoc(body, entries) == [body |-> body, entries |-> entries]

\* qiita_api.rs:59-62 and parse_feed_xml: the error of a 2xx response, if any
feed_body_error(doc) ==
    CASE doc.body = "unreadable" -> AppError("Network", "body", 0)
      [] doc.body = "notxml" -> AppError("Network", "xml", 0)
      [] doc.body = "nofeed" -> AppError("Network", "nofeed", 0)
      [] OTHER -> NoError

(***************************************************************************)
(* Pagination, qiita_api.rs:103-125                                        *)
(***************************************************************************)
\* fetch_likes_count in progress: the page to request next, the running
\* total, the lengths of the pages received, and the value returned
NoCount == [page |-> 0, total |-> 0, pages |-> <<>>, ret |-> None]
NewCount == [NoCount EXCEPT !.page = 1]

\* main.rs:59: the candidate is pushed to enriched
meets_min_always(likes, min_likes) == TRUE
meets_min(likes, min_likes) == likes >= min_likes

\* one pass of the loop body after fetch_likes_page returned a page of
\* `len` entries: lines 113-116, and line 124 after the last page
count_page_wrapping(c, len, per_page, max_pages) ==
    LET total == SaturatingAddWrapping(c.total, len)
    IN  [page |-> c.page + 1, total |-> total, pages |-> Append(c.pages, len),
         ret |-> IF len < per_page \/ c.page >= max_pages
                 THEN Some(total) ELSE None]
count_page(c, len, per_page, max_pages) ==
    LET total == saturating_add(c.total, len)
    IN  [page |-> c.page + 1, total |-> total, pages |-> Append(c.pages, len),
         ret |-> IF len < per_page \/ c.page >= max_pages
                 THEN Some(total) ELSE None]

(***************************************************************************)
(* Selection and rendering, main.rs:68-115 and 136-184                     *)
(***************************************************************************)
ParseTime(opt) == IF opt = None THEN None ELSE parse_datetime(opt[1])

\* main.rs published_time
published_time(item) ==
    IF IsSome(ParseTime(item.updated)) THEN ParseTime(item.updated)
    ELSE ParseTime(item.published)

\* state.rs select_updated_time
select_updated_time(item) ==
    LET u == ParseTime(item.updated)
        p == ParseTime(item.published)
    IN  IF IsSome(u) /\ IsSome(p) THEN Some(IF u[1] > p[1] THEN u[1] ELSE p[1])
        ELSE IF IsSome(u) THEN u
        ELSE IF IsSome(p) THEN p
        ELSE None

\* Ord for Option<DateTime>: None is less than every Some
CmpOption(a, b) ==
    IF a = None /\ b = None THEN "Equal"
    ELSE IF a = None THEN "Less"
    ELSE IF b = None THEN "Greater"
    ELSE IF a[1] < b[1] THEN "Less"
    ELSE IF a[1] > b[1] THEN "Greater" ELSE "Equal"

CmpInt(a, b) == IF a < b THEN "Less" ELSE IF a > b THEN "Greater" ELSE "Equal"

\* main.rs compare_items
compare_items(a, b) ==
    IF CmpInt(b.likes_count, a.likes_count) # "Equal"
    THEN CmpInt(b.likes_count, a.likes_count)
    ELSE CmpOption(published_time(b), published_time(a))

\* slice::sort_by(compare_items): a stable sort
RECURSIVE InsertByCompare(_, _)
InsertByCompare(sorted, x) ==
    IF sorted = <<>> THEN <<x>>
    ELSE IF compare_items(x, Head(sorted)) = "Less"
         THEN <<x>> \o sorted
         ELSE <<Head(sorted)>> \o InsertByCompare(Tail(sorted), x)

RECURSIVE SortByCompare(_)
SortByCompare(list) ==
    IF list = <<>> THEN <<>>
    ELSE InsertByCompare(SortByCompare(SubSeq(list, 1, Len(list) - 1)),
                         list[Len(list)])

\* the keys that pass the filter of main.rs:72
QualifyingAll(store, min_likes) == DOMAIN store
Qualifying(store, min_likes) ==
    {k \in DOMAIN store : store[k].likes_count >= min_likes}

\* main.rs:68-79; order is the iteration order of state.items.values()
select(store, order, min_likes, max_entries) ==
    LET korder == SelectSeq(order, LAMBDA k : k \in Qualifying(store, min_likes))
        list == [i \in 1 .. Len(korder) |-> store[korder[i]]]
        sorted == SortByCompare(list)
    IN  IF Len(sorted) > max_entries THEN SubSeq(sorted, 1, max_entries)
        ELSE sorted

\* main.rs build_entries with build_entry_id; the summary carries the count
build_entries(list, t) ==
    [i \in 1 .. Len(list) |->
        [id |-> list[i].item_id,
         title |-> list[i].title,
         link |-> list[i].link,
         updated |-> IF IsSome(select_updated_time(list[i]))
                     THEN select_updated_time(list[i])[1]
                     ELSE IF IsSome(published_time(list[i]))
                          THEN published_time(list[i])[1] ELSE t,
         summary_likes |-> list[i].likes_count]]

RECURSIVE MaxUpdated(_)
MaxUpdated(entries) ==
    IF Len(entries) = 1 THEN entries[1].updated
    ELSE LET m == MaxUpdated(Tail(entries))
         IN  IF entries[1].updated > m THEN entries[1].updated ELSE m

\* atom.rs default_feed_updated
default_feed_updated(entries, t) ==
    IF entries = <<>> THEN t ELSE MaxUpdated(entries)

(***************************************************************************)
(* atom.rs build_feed_xml: the document as the tree of the elements the    *)
(* writer emits; an element is [tag, attrs, text, children], attrs a list  *)
(* of <<name, value>> pairs in the order of push_attribute                 *)
(***************************************************************************)
\* atom.rs write_text_element: Start, Text, End
write_text_element(name, value) ==
    [tag |-> name, attrs |-> <<>>, text |-> Some(value), children |-> <<>>]

\* atom.rs write_link: an Empty event with rel and href
write_link(rel, href) ==
    [tag |-> "link", attrs |-> <<<<"rel", rel>>, <<"href", href>>>>,
     text |-> None, children |-> <<>>]

\* the body of the loop over feed.entries, atom.rs:50-76
entry_element_untyped(entry) ==
    [tag |-> "entry", attrs |-> <<>>, text |-> None,
     children |-> <<write_text_element("id", entry.id),
                    write_text_element("title", entry.title),
                    write_link("alternate", entry.link),
                    write_text_element("updated", to_rfc3339(entry.updated)),
                    write_text_element("summary", entry.summary_html)>>]
entry_element(entry) ==
    [tag |-> "entry", attrs |-> <<>>, text |-> None,
     children |-> <<write_text_element("id", entry.id),
                    write_text_element("title", entry.title),
                    write_link("alternate", entry.link),
                    write_text_element("updated", to_rfc3339(entry.updated)),
                    [tag |-> "summary", attrs |-> <<<<"type", "html">>>>,
                     text |-> Some(entry.summary_html), children |-> <<>>]>>]

\* str::trim(description).is_empty(); description is a sequence of characters
trim_is_empty(description) ==
    \A i \in DOMAIN description : description[i] = " "

\* atom.rs FeedInfo
FeedInfo(id, title, description, updated, feed_url, index_url, entries) ==
    [id |-> id, title |-> title, description |-> description,
     updated |-> updated, feed_url |-> feed_url, index_url |-> index_url,
     entries |-> entries]

\* atom.rs build_feed_xml, of a writer into memory, whose events do not fail
build_feed_xml(feed) ==
    [decl |-> [version |-> "1.0", encoding |-> "UTF-8"],
     root |->
       [tag |-> "feed",
        attrs |-> <<<<"xmlns", "http://www.w3.org/2005/Atom">>>>,
        text |-> None,
        children |->
          <<write_text_element("id", feed.id),
            write_text_element("title", feed.title),
            write_text_element("updated", to_rfc3339(feed.updated)),
            write_link("self", feed.feed_url),
            write_link("alternate", feed.index_url)>>
          \o (IF trim_is_empty(feed.description) THEN <<>>
              ELSE <<write_text_element("subtitle", feed.description)>>)
          \o [i \in 1 .. Len(feed.entries) |-> entry_element(feed.entries[i])]]]

\* the documents run() writes: the feed, the index page, the build marker
feed_xml(entries, t) ==
    [type |-> "atom", updated |-> default_feed_updated(entries, t),
     entries |-> entries]
index_html(entries, t, min_likes) ==
    [type |-> "html", updated |-> default_feed_updated(entries, t),
     min_likes |-> min_likes]
last_build_text(t) == [type |-> "text", now |-> t]
EmptyText == [type |-> "empty"]
StateJson(list) == [type |-> "state", items |-> list]

(***************************************************************************)
(* run(), main.rs:37-134 (specification Spec)                              *)
(***************************************************************************)
Config(min_likes, per_page, max_pages, max_entries, max_days, max_items, dry) ==
    [min_likes |-> min_likes, likes_per_page |-> per_page,
     likes_max_pages |-> max_pages, max_feed_entries |-> max_entries,
     max_stored_days |-> max_days, max_stored_items |-> max_items,
     dry_run |-> dry]

\* configurations that pass AppConfig::validate
Configs == {Config(5, 4, 3, 2, 1, 2, FALSE),
            Config(5, 4, 3, 2, 1, 2, TRUE),
            Config(5, 4, 3, 1, 1, 1, FALSE)}

\* the entries of the fetched documents
EntryX == Entry(Some("T1"), Some(LinkX), Some(to_rfc3339(1)), None)
EntryX2 == Entry(Some("T2"), Some(LinkXq), Some(to_rfc3339(2)), None)
EntryY == Entry(Some("T1"), Some(LinkY), None, Some(to_rfc3339(1)))
EntryNoLink == Entry(Some("T2"), None, None, None)
EntryNoTitle == Entry(None, Some(LinkY), None, None)
EntryPlain == Entry(Some("T2"), Some(LinkPlain), None, None)

FeedDocs == {FeedDoc("unreadable", <<>>), FeedDoc("notxml", <<>>),
             FeedDoc("nofeed", <<>>), FeedDoc("ok", <<>>),
             FeedDoc("ok", <<EntryX, EntryNoLink, EntryY>>),
             FeedDoc("ok", <<EntryPlain, EntryNoTitle, EntryX2>>)}

\* the lengths of the pages the counting endpoint may return
PageLens(per_page) == {0, per_page - 1, per_page, CountMax - 1}

\* the disk before the run: nothing, or what earlier runs left
RecX == StoredOf(QiitaItem(Some(IdX), "T1", LinkX, Some(to_rfc3339(1)), 12),
                 MaxNow - 1)
RecYOld == StoredOf(QiitaItem(Some(IdY), "T1", LinkY, None, 9), 0)
RecYNew == StoredOf(QiitaItem(Some(IdY), "T1", LinkY, None, 9), MaxNow - 1)
OldFeed == feed_xml(<<>>, 0)
Disk(state) ==
    [state |-> IF state = None THEN None ELSE Some(StateJson(state[1])),
     out |-> IF state = None THEN None ELSE Some(OldFeed),
     index |-> IF state = None THEN None ELSE Some(index_html(<<>>, 0, 5)),
     last_build |-> IF state = None THEN None ELSE Some(last_build_text(0)),
     nojekyll |-> IF state = None THEN None ELSE Some(EmptyText)]
Disks == {Disk(None), Disk(Some(<<RecX, RecYOld>>)), Disk(Some(<<RecX, RecYNew>>))}

\* what the run has produced: the identities handed to fetch_likes_count,
\* the return value of merge_from_feed, the selection and the documents
NoOut == [counted |-> <<>>, merged |-> 0, selected |-> <<>>,
          feed_xml |-> EmptyText, index_html |-> EmptyText]

Init ==
    /\ items = EmptyMap
    /\ call = NoCall
    /\ pc = "start"
    /\ cfg \in Configs
    /\ now = MaxNow
    /\ disk0 \in Disks
    /\ files = disk0
    /\ net = NoFetch
    /\ feed_items = <<>>
    /\ idx = 1
    /\ enriched = <<>>
    /\ cnt = NoCount
    /\ out = NoOut
    /\ err = NoError

\* return Err(e) out of run(): main() prints it and exits with its code
Fail(e) ==
    /\ pc' = "failed"
    /\ err' = e

\* main.rs:38-43: the configuration, the clock, the state file, the client
Start ==
    /\ pc = "start"
    /\ \E res \in {"ok", "config", "state", "client"} :
         CASE res = "config" ->
                /\ Fail(AppError("Config", "config", 0))
                /\ UNCHANGED <<items, call>>
           [] res = "state" ->
                /\ files.state # None
                /\ Fail(AppError("Feed", "state", 0))
                /\ UNCHANGED <<items, call>>
           [] res = "client" ->
                /\ Fail(AppError("Network", "client", 0))
                /\ items' = StateStore_load(IF files.state = None THEN None
                                            ELSE Some(files.state[1].items))
                /\ call' = [NoCall EXCEPT !.op = "load",
                       !.file = IF files.state = None THEN None
                                ELSE Some(files.state[1].items)]
           [] OTHER ->
                /\ items' = StateStore_load(IF files.state = None THEN None
                                            ELSE Some(files.state[1].items))
                /\ call' = [NoCall EXCEPT !.op = "load",
                       !.file = IF files.state = None THEN None
                                ELSE Some(files.state[1].items)]
                /\ pc' = "feed"
                /\ err' = err
    /\ UNCHANGED <<cfg, now, files, disk0, net, feed_items, idx, enriched,
                   cnt, out>>

\* one pass of the loop of fetch_feed, qiita_api.rs:47-100
FeedAttempt ==
    /\ pc = "feed"
    /\ \E status \in Statuses, doc \in FeedDocs :
         LET f == CurrentFetch(net, "feed", 0)
             n == f.attempt + 1
             d == feed_attempt(status, n)
             body == IF d = "body" THEN doc.body ELSE "none"
             g == AfterAttempt(f, [status |-> status, body |-> body], d)
             e == IF d = "body" THEN feed_body_error(doc)
                  ELSE AppError("Network",
                                IF status = TransportError THEN "transport"
                                ELSE "status", n)
         IN  /\ d # "body" => doc = FeedDoc("ok", <<>>)
             /\ CASE d = "retry" ->
                      /\ net' = g
                      /\ UNCHANGED <<pc, err, feed_items>>
                  [] d = "body" /\ e = NoError ->
                      /\ net' = [g EXCEPT !.result = "ok"]
                      /\ feed_items' = parse_entries(doc.entries)
                      /\ pc' = "enrich"
                      /\ err' = err
                  [] OTHER ->
                      /\ net' = [g EXCEPT !.result = "err", !.error = e]
                      /\ Fail(e)
                      /\ UNCHANGED feed_items
    /\ UNCHANGED <<items, call, cfg, now, files, disk0, idx, enriched, cnt, out>>

\* main.rs:49-52: a candidate without item_id is skipped
EnrichSkip ==
    /\ pc = "enrich"
    /\ idx <= Len(feed_items)
    /\ feed_items[idx].item_id = None
    /\ idx' = idx + 1
    /\ UNCHANGED <<items, call, pc, cfg, now, files, disk0, net, feed_items,
                   enriched, cnt, out, err>>

\* main.rs:53: fetch_likes_count is entered for a candidate with an item_id
\* and calls fetch_likes_page for page 1
EnrichCount ==
    /\ pc = "enrich"
    /\ idx <= Len(feed_items)
    /\ feed_items[idx].item_id # None
    /\ pc' = "likes"
    /\ cnt' = NewCount
    /\ net' = NewFetch("likes", 1)
    /\ out' = [out EXCEPT !.counted = Append(out.counted,
                                              feed_items[idx].item_id[1])]
    /\ UNCHANGED <<items, call, cfg, now, files, disk0, feed_items, idx,
                   enriched, err>>

\* one pass of the loop of fetch_likes_page, qiita_api.rs:135-196, and when
\* it returns a page the rest of the loop body of fetch_likes_count and,
\* when that returns, main.rs:58-61
LikesAttempt ==
    /\ pc = "likes"
    /\ \E status \in Statuses,
          len \in PageLens(cfg.likes_per_page) \cup {-1} :
         LET f == CurrentFetch(net, "likes", cnt.page)
             n == f.attempt + 1
             d == likes_attempt(status, n)
             body == IF d # "body" THEN "none"
                     ELSE IF len = -1 THEN "undecodable" ELSE "ok"
             g == AfterAttempt(f, [status |-> status, body |-> body], d)
             e == CASE d = "unauthorized" -> AppError("Network", "credential", 0)
                    [] d = "body" -> AppError("Network", "json", 0)
                    [] OTHER -> AppError("Network",
                                         IF status = TransportError
                                         THEN "transport" ELSE "status", n)
             c == count_page(cnt, len, cfg.likes_per_page, cfg.likes_max_pages)
             item == [feed_items[idx] EXCEPT !.likes_count = c.ret[1]]
         IN  /\ d # "body" => len = 0
             /\ CASE d = "retry" ->
                      /\ net' = g
                      /\ UNCHANGED <<pc, err, cnt, feed_items, idx, enriched>>
                  [] d = "body" /\ len # -1 /\ c.ret = None ->
                      /\ net' = [g EXCEPT !.result = "ok"]
                      /\ cnt' = c
                      /\ UNCHANGED <<pc, err, feed_items, idx, enriched>>
                  [] d = "body" /\ len # -1 /\ c.ret # None ->
                      /\ net' = [g EXCEPT !.result = "ok"]
                      /\ cnt' = c
                      /\ feed_items' = [feed_items EXCEPT ![idx] = item]
                      /\ enriched' = IF meets_min(c.ret[1], cfg.min_likes)
                                     THEN Append(enriched, item) ELSE enriched
                      /\ idx' = idx + 1
                      /\ pc' = "enrich"
                      /\ err' = err
                  [] OTHER ->
                      /\ net' = [g EXCEPT !.result = "err", !.error = e]
                      /\ Fail(e)
                      /\ UNCHANGED <<cnt, feed_items, idx, enriched>>
    /\ UNCHANGED <<items, call, cfg, now, files, disk0, out>>

\* main.rs:64
Merge ==
    /\ pc = "enrich"
    /\ idx > Len(feed_items)
    /\ LET r == merge_from_feed(items, enriched, now)
       IN  /\ items' = r.items
           /\ call' = [NoCall EXCEPT !.op = "merge", !.cands = enriched,
                                     !.now = now, !.ret = r.merged,
                                     !.size_before = Cardinality(DOMAIN items)]
           /\ out' = [out EXCEPT !.merged = r.merged]
    /\ pc' = "prune"
    /\ UNCHANGED <<cfg, now, files, disk0, net, feed_items, idx, enriched,
                   cnt, err>>

\* main.rs:66
Prune ==
    /\ pc = "prune"
    /\ \E order \in Perms(AgeKept(items, now, cfg.max_stored_days)) :
         items' = prune(items, order, now, cfg.max_stored_days,
                        cfg.max_stored_items)
    /\ call' = [NoCall EXCEPT !.op = "prune", !.now = now,
                              !.max_days = cfg.max_stored_days,
                              !.max_items = cfg.max_stored_items,
                              !.size_before = Cardinality(DOMAIN items)]
    /\ pc' = "select"
    /\ UNCHANGED <<cfg, now, files, disk0, net, feed_items, idx, enriched,
                   cnt, out, err>>

\* main.rs:68-125: select, render, and return early on --dry-run.
\* build_feed_xml writes into a Vec<u8>, which does not fail.
Select ==
    /\ pc = "select"
    /\ \E order \in Perms(Qualifying(items, cfg.min_likes)) :
         LET sel == select(items, order, cfg.min_likes, cfg.max_feed_entries)
             entries == build_entries(sel, now)
         IN  out' = [out EXCEPT !.selected = sel,
                                !.feed_xml = feed_xml(entries, now),
                                !.index_html = index_html(entries, now,
                                                          cfg.min_likes)]
    /\ pc' = IF cfg.dry_run THEN "done" ELSE "write_out"
    /\ UNCHANGED <<items, call, cfg, now, files, disk0, net, feed_items, idx,
                   enriched, cnt, err>>

\* main.rs write_output: on success the file holds content; on failure
\* (create_dir_all or fs::write returned an error) the file is as before
WriteFile(name, content, next, msg) ==
    \E res \in {"ok", "failed"} :
        CASE res = "ok" ->
               /\ files' = [files EXCEPT ![name] = Some(content)]
               /\ pc' = next
               /\ err' = err
          [] OTHER ->
               /\ files' = files
               /\ Fail(AppError("Feed", msg, 0))

RunFrame == <<items, call, cfg, now, disk0, net, feed_items, idx, enriched,
              cnt, out>>

\* main.rs:127
WriteOut ==
    /\ pc = "write_out"
    /\ WriteFile("out", out.feed_xml, "write_index", "write")
    /\ UNCHANGED RunFrame

\* main.rs:128
WriteIndex ==
    /\ pc = "write_index"
    /\ WriteFile("index", out.index_html, "write_last_build", "write")
    /\ UNCHANGED RunFrame

\* main.rs:129
WriteLastBuild ==
    /\ pc = "write_last_build"
    /\ WriteFile("last_build", last_build_text(now), "write_nojekyll", "write")
    /\ UNCHANGED RunFrame

\* main.rs:130, write_nojekyll: nothing to do when the file exists
WriteNojekyll ==
    /\ pc = "write_nojekyll"
    /\ IF files.nojekyll # None
       THEN /\ pc' = "save"
            /\ UNCHANGED <<files, err>>
       ELSE WriteFile("nojekyll", EmptyText, "save", "nojekyll")
    /\ UNCHANGED RunFrame

\* main.rs:131, StateStore::save
Save ==
    /\ pc = "save"
    /\ WriteFile("state", StateJson(to_sorted_vec(items)), "done", "save")
    /\ UNCHANGED RunFrame

Next ==
    \/ Start
    \/ FeedAttempt
    \/ EnrichSkip
    \/ EnrichCount
    \/ LikesAttempt
    \/ Merge
    \/ Prune
    \/ Select
    \/ WriteOut
    \/ WriteIndex
    \/ WriteLastBuild
    \/ WriteNojekyll
    \/ Save

Spec == Init /\ [][Next]_vars

(***************************************************************************)
(* The selection of main.rs:68-79 applied to a given store snapshot        *)
(* (specification SelectSpec): the state of the run after prune is any     *)
(* store, and the selection may be made again on the same store, as a      *)
(* later run with an unchanged state file makes it.                        *)
(***************************************************************************)
\* the fields of a stored record that the selection reads
Variant(likes, updated, published) ==
    [likes_count |-> likes, updated |-> updated, published |-> published]

\* an article updated after it was published, one whose published string is
\* the later of the two, one with no timestamp, one whose updated string
\* does not parse, one below the threshold, and one updated last of all
Variants == {Variant(12, Some(to_rfc3339(1)), Some(to_rfc3339(0))),
             Variant(12, Some(to_rfc3339(1)), Some(to_rfc3339(3))),
             Variant(12, None, None),
             Variant(7, Some(GarbageTime), Some(to_rfc3339(1))),
             Variant(3, Some(to_rfc3339(2)), None),
             Variant(12, Some(to_rfc3339(2)), None)}

SnapshotKeys == {IdX, IdY, LinkPlain}

\* the StoredItem with key k and the fields of variant v
SnapRec(k, v) ==
    [StoredOf(QiitaItem(IF k = LinkPlain THEN None ELSE Some(k), "T1",
                        IF k = LinkPlain THEN k ELSE LinkBase \o Marker \o k,
                        v.updated, v.likes_count), 0)
       EXCEPT !.published = v.published]

Snapshots ==
    UNION {{[k \in S |-> SnapRec(k, f[k])] : f \in [S -> Variants]} :
             S \in SUBSET SnapshotKeys}

SelectInit ==
    /\ items \in Snapshots
    /\ call = NoCall
    /\ pc = "select"
    /\ cfg \in Configs
    /\ now = MaxNow
    /\ disk0 = Disk(None)
    /\ files = disk0
    /\ net = NoFetch
    /\ feed_items = <<>>
    /\ idx = 1
    /\ enriched = <<>>
    /\ cnt = NoCount
    /\ out = NoOut
    /\ err = NoError

\* main.rs:68-79
SelectApply ==
    /\ pc = "select"
    /\ \E order \in Perms(Qualifying(items, cfg.min_likes)) :
         out' = [out EXCEPT !.selected =
                    select(items, order, cfg.min_likes, cfg.max_feed_entries)]
    /\ call' = [NoCall EXCEPT !.op = "select",
                              !.size_before = Cardinality(DOMAIN items)]
    /\ UNCHANGED <<items, pc, cfg, now, files, disk0, net, feed_items, idx,
                   enriched, cnt, err>>

SelectNext == SelectApply

SelectSpec == SelectInit /\ [][SelectNext]_vars

(***************************************************************************)
(* extract_item_id applied to a given link (specification ExtractSpec)     *)
(***************************************************************************)
\* a letter of an id, and the three characters a URL gives a meaning to
LinkChars == {"x", "/", "?", "#"}
Tails == UNION {[1 .. n -> LinkChars] : n \in 0 .. MaxTail}

\* links with the marker and links without it ("h/u" and "h/u/p/" followed
\* by a tail), and a link in which the marker occurs twice
Links ==
    {LinkBase \o Marker \o t : t \in Tails}
      \cup {LinkBase \o t : t \in Tails}
      \cup {LinkPlain \o <<"/">> \o t : t \in Tails}
      \cup {LinkX \o Marker \o <<"y">>}

ExtractInit ==
    /\ items = EmptyMap
    /\ call \in {[op |-> "new", link |-> l, ret |-> None] : l \in Links}
    /\ RunIdle

\* let item_id = extract_item_id(&link), qiita_api.rs:237
ExtractApply ==
    /\ call.op = "new"
    /\ call' = [call EXCEPT !.op = "extract_item_id",
                            !.ret = extract_item_id(call.link)]
    /\ UNCHANGED <<items, pc, cfg, now, files, disk0, net, feed_items, idx,
                   enriched, cnt, out, err>>

ExtractNext == ExtractApply

ExtractSpec == ExtractInit /\ [][ExtractNext]_vars

(***************************************************************************)
(* default_feed_updated and build_feed_xml applied to given entries, as    *)
(* main.rs:88-104 and tests/atom_minimum.rs apply them (specification      *)
(* AtomSpec)                                                               *)
(***************************************************************************)
\* atom.rs FeedEntry
FeedEntry(id, title, link, updated, summary_html) ==
    [id |-> id, title |-> title, link |-> link, updated |-> updated,
     summary_html |-> summary_html]

FeedEntries == {FeedEntry("e1", "T1", "l1", 0, "Likes: 12"),
                FeedEntry("e2", "T2", "l2", 1, "Likes: 7"),
                FeedEntry("e3", "", "l3", MaxNow + 1, "")}

Descriptions == {<<>>, <<" ">>, <<"D">>}

AtomInit ==
    /\ items = EmptyMap
    /\ call \in {[op |-> "new", entries |-> es, description |-> d, now |-> t,
                  feed |-> None, ret |-> None] :
                   es \in SeqsUpTo(FeedEntries, MaxEntries),
                   d \in Descriptions, t \in Nows}
    /\ RunIdle

\* main.rs:89-104: the FeedInfo of the entries, dated by default_feed_updated
AtomInfo ==
    /\ call.op = "new"
    /\ call' = [call EXCEPT
                  !.op = "default_feed_updated",
                  !.feed = Some(FeedInfo("feed.xml", "Sample", call.description,
                                         default_feed_updated(call.entries,
                                                              call.now),
                                         "feed.xml", "index.html",
                                         call.entries))]
    /\ UNCHANGED <<items, pc, cfg, now, files, disk0, net, feed_items, idx,
                   enriched, cnt, out, err>>

\* main.rs:105: let feed_xml = build_feed_xml(&feed)?
AtomBuild ==
    /\ call.op = "default_feed_updated"
    /\ call' = [call EXCEPT !.op = "build_feed_xml",
                            !.ret = Some(build_feed_xml(call.feed[1]))]
    /\ UNCHANGED <<items, pc, cfg, now, files, disk0, net, feed_items, idx,
                   enriched, cnt, out, err>>

AtomNext == AtomInfo \/ AtomBuild

AtomSpec == AtomInit /\ [][AtomNext]_vars

(***************************************************************************)
(* Properties of run() and of the fetch layer, checked under Spec          *)
(***************************************************************************)
Retryable == {TransportError, 429, 503}
StatusesOf(f) == [i \in DOMAIN f.outcomes |-> f.outcomes[i].status]
\* every attempt of the fetch was a retryable failure or a usable 2xx
OnlyRetryableOr2xx(f) ==
    \A i \in DOMAIN f.outcomes :
        \/ f.outcomes[i].status \in Retryable
        \/ f.outcomes[i] = [status |-> 200, body |-> "ok"]
AllRetryable(f) ==
    \A i \in DOMAIN f.outcomes : f.outcomes[i].status \in Retryable

\* C1: a run that fails with an error raised before StateStore::save
\* (anything but the error of save itself) has left every file on disk as
\* it was when the run started.
C1_NoPartialOutput ==
    (pc = "failed" /\ err.msg # "save") => files = disk0

\* C2: a fetch whose attempts are retryable failures and 2xx only makes at
\* most 3 attempts, has slept 1s after the first failure and 2s after the
\* second, ends with success at its first 2xx, and ends with a Network
\* error after exactly 3 attempts and 2 sleeps when all 3 attempts failed.
C2_RetrySchedule ==
    OnlyRetryableOr2xx(net) =>
        /\ net.attempt = Len(net.outcomes)
        /\ Len(net.outcomes) <= 3
        /\ net.waits \in {<<>>, <<1>>, <<1, 2>>}
        /\ \A i \in DOMAIN net.outcomes :
              net.outcomes[i].status = 200 =>
                  /\ i = Len(net.outcomes)
                  /\ net.result = "ok"
                  /\ Len(net.waits) = i - 1
        /\ net.result = "ok" => net.outcomes[Len(net.outcomes)].status = 200
        /\ (AllRetryable(net) /\ Len(net.outcomes) < 3) =>
              /\ net.result = "pending"
              /\ Len(net.waits) = Len(net.outcomes)
        /\ (AllRetryable(net) /\ Len(net.outcomes) = 3) =>
              /\ net.result = "err"
              /\ net.error.kind = "Network"
              /\ net.error.attempt = 3
              /\ net.waits = <<1, 2>>

\* C2 witnesses: [503, 503, 200] on a counting page, succeeded after the
\* sleeps of 1s and 2s
C2_Witness ==
    /\ net.fn = "likes"
    /\ StatusesOf(net) = <<503, 503, 200>>
    /\ net.result = "ok"
    /\ net.waits = <<1, 2>>

\* C3 as stated: in the feed fetch and in a counting-page fetch alike, a
\* 401 is the last attempt, no sleep follows it, and the fetch ends with
\* the Network error that tells the operator to set the credential.
C3_Original ==
    \A i \in DOMAIN net.outcomes :
        net.outcomes[i].status = 401 =>
            /\ i = Len(net.outcomes)
            /\ Len(net.waits) = i - 1
            /\ net.result = "err"
            /\ net.error.kind = "Network"
            /\ net.error.msg = "credential"

\* C3 amended: a 401 ends either fetch at once with a Network error and no
\* sleep; the credential message is that of the counting-page fetch, the
\* feed fetch reports its status-and-attempt failure message.
C3_UnauthorizedIsFinal ==
    \A i \in DOMAIN net.outcomes :
        net.outcomes[i].status = 401 =>
            /\ i = Len(net.outcomes)
            /\ Len(net.waits) = i - 1
            /\ net.result = "err"
            /\ net.error.kind = "Network"
            /\ net.fn = "likes" => net.error.msg = "credential"
            /\ net.fn = "feed" =>
                  net.error.msg = "status" /\ net.error.attempt = i

C3_Witness ==
    /\ net.fn = "likes"
    /\ StatusesOf(net) = <<503, 401>>
    /\ net.waits = <<1>>
    /\ pc = "failed"
    /\ err.msg = "credential"

\* C4 as stated: a 404 before the 3rd attempt is followed by the backoff
\* sleep (and a further attempt), so a fetch that ends on a 404 has made 3
\* attempts.
C4_Original ==
    \A i \in DOMAIN net.outcomes :
        (net.outcomes[i].status = 404 /\ i < 3) => Len(net.waits) >= i

\* C4 amended: a 404 is not retried: it is the last attempt of its fetch,
\* no sleep follows it, and the fetch ends with the Network error that
\* reports the status and the number of that attempt.
C4_ClientErrorIsFinal ==
    \A i \in DOMAIN net.outcomes :
        net.outcomes[i].status = 404 =>
            /\ i = Len(net.outcomes)
            /\ Len(net.waits) = i - 1
            /\ net.result = "err"
            /\ net.error = AppError("Network", "status", i)

C4_Witness ==
    /\ net.fn = "feed"
    /\ StatusesOf(net) = <<404>>
    /\ net.waits = <<>>
    /\ pc = "failed"
    /\ exit_code(err.kind) = 3

RECURSIVE SumSeq(_)
SumSeq(q) == IF q = <<>> THEN 0 ELSE Head(q) + SumSeq(Tail(q))

\* C5: fetch_likes_count requests pages 1, 2, ... in order, returns at the
\* first page shorter than per_page or after max_pages pages, whichever is
\* first, and what it returns is the sum of the page lengths, capped at
\* the largest value of the counter.
C5_Pagination ==
    pc \in {"likes", "enrich", "prune"} /\ cnt # NoCount =>
        LET n == Len(cnt.pages)
        IN  /\ n <= cfg.likes_max_pages
            /\ cnt.page = n + 1
            /\ (net.fn = "likes" /\ net.result = "ok") => net.page = n
            /\ (net.fn = "likes" /\ net.result = "pending") => net.page = n + 1
            /\ \A i \in 1 .. n - 1 : cnt.pages[i] >= cfg.likes_per_page
            /\ cnt.total = Min(SumSeq(cnt.pages), CountMax)
            /\ cnt.ret # None <=>
                  /\ n >= 1
                  /\ cnt.pages[n] < cfg.likes_per_page \/ n = cfg.likes_max_pages
            /\ cnt.ret # None => cnt.ret = Some(Min(SumSeq(cnt.pages), CountMax))

\* C5 witness: no short page among max_pages pages, and a sum beyond the
\* counter's range: the count returns the cap, as a success
C5_Witness ==
    /\ pc = "enrich"
    /\ Len(cnt.pages) = cfg.likes_max_pages
    /\ \A i \in DOMAIN cnt.pages : cnt.pages[i] >= cfg.likes_per_page
    /\ SumSeq(cnt.pages) > CountMax
    /\ cnt.ret = Some(CountMax)
    /\ err = NoError

HasHint(item) == item.item_id # None

\* the candidates that have an identity hint and a count at or above the
\* threshold, in feed order
Retained(list, min_likes) ==
    SelectSeq(list, LAMBDA it : HasHint(it) /\ it.likes_count >= min_likes)

\* the identities of the candidates that have an identity hint
HintsOf(list) ==
    LET hinted == SelectSeq(list, HasHint)
    IN  [i \in DOMAIN hinted |-> hinted[i].item_id[1]]

\* C6: fetch_likes_count is called for exactly the candidates that have an
\* identity hint; a candidate without one does not end the run; enriched,
\* and so the argument of merge, is exactly the candidates with a hint
\* whose count is at least min_likes; and with an empty store, candidates
\* counted 12 and 3 and min_likes 5, the saved state is one record with
\* count 12.
C6_Enrichment ==
    LET started == IF pc = "likes" \/ (pc = "failed" /\ idx <= Len(feed_items))
                   THEN idx ELSE idx - 1
    IN  /\ out.counted = HintsOf(SubSeq(feed_items, 1, started))
        /\ enriched = Retained(SubSeq(feed_items, 1, idx - 1), cfg.min_likes)
        /\ (pc = "failed" /\ idx <= Len(feed_items)) =>
              /\ HasHint(feed_items[idx])
              /\ net.fn = "likes" /\ net.result = "err"
        /\ call.op = "merge" =>
              /\ call.cands = Retained(feed_items, cfg.min_likes)
              /\ out.counted = HintsOf(feed_items)
        /\ ( /\ pc = "done" /\ ~cfg.dry_run
             /\ disk0.state = None
             /\ cfg.min_likes = 5
             /\ Len(feed_items) = 2
             /\ feed_items[1].likes_count = 12
             /\ feed_items[2].likes_count = 3 ) =>
              /\ files.state # None
              /\ Len(files.state[1].items) = 1
              /\ files.state[1].items[1].likes_count = 12

\* C6 witness: the feed of three entries of which one has no link, counts
\* 12 and 3, saved as one record
C6_Witness ==
    /\ pc = "done"
    /\ disk0.state = None
    /\ out.counted = <<IdX, IdY>>
    /\ Len(feed_items) = 2
    /\ feed_items[1].likes_count = 12
    /\ feed_items[2].likes_count = 3
    /\ files.state # None
    /\ Len(files.state[1].items) = 1
    /\ files.state[1].items[1].key = IdX
    /\ files.state[1].items[1].likes_count = 12

(***************************************************************************)
(* Properties of the store, checked under StoreSpec                        *)
(***************************************************************************)
\* a candidate has an id or a non-empty link
Keyable(c) == c.item_id # None \/ c.link # <<>>
\* the identity key: the id when present, otherwise the link
KeyOf(c) == IF c.item_id # None THEN c.item_id[1] ELSE c.link

\* C7: after merge, under the key of every candidate the store holds the
\* record made of the fields of the last candidate with that key and of
\* last_seen = now, and nothing else; a merge of candidates whose keys are
\* all in the store leaves the set of keys as it was.
C7_MergeOverwrites ==
    /\ [](call.op = "merge" =>
            \A i \in DOMAIN call.cands :
                LET c == call.cands[i]
                IN  ( /\ Keyable(c)
                      /\ \A j \in (i + 1) .. Len(call.cands) :
                            KeyOf(call.cands[j]) # KeyOf(c) ) =>
                        /\ KeyOf(c) \in DOMAIN items
                        /\ items[KeyOf(c)] =
                             [key |-> KeyOf(c), item_id |-> c.item_id,
                              title |-> c.title, link |-> c.link,
                              summary |-> c.summary,
                              published |-> c.published,
                              updated |-> c.updated,
                              author_name |-> c.author_name,
                              likes_count |-> c.likes_count,
                              last_seen |-> [text |-> "rfc3339",
                                             t |-> call.now]])
    /\ [][(/\ call'.op = "merge"
           /\ \A i \in DOMAIN call'.cands :
                 KeyOf(call'.cands[i]) \in DOMAIN items)
          => DOMAIN items' = DOMAIN items]_vars

\* C7 witness: the article x, alone in the store, is merged again with
\* other fields at a later time, and the store still holds one record
C7_Witness ==
    /\ call.op = "merge"
    /\ call.cands = <<CandX2>>
    /\ call.size_before = 1
    /\ call.now = MaxNow
    /\ DOMAIN items = {IdX}
    /\ items[IdX].title = "T2"

\* C8: merge counts and stores only the candidates that have an id or a
\* non-empty link: its return value is their number, and no record of a
\* candidate with neither is in the store.
C8_UnkeyedDropped ==
    /\ call.op = "merge" =>
          call.ret = Cardinality({i \in DOMAIN call.cands : Keyable(call.cands[i])})
    /\ \A k \in DOMAIN items : items[k].item_id # None \/ items[k].link # <<>>

\* C9: every record is stored under its own key field, and the list that
\* save writes has no two records with the same key.
C9_KeyInvariant ==
    /\ \A k \in DOMAIN items : items[k].key = k
    /\ \A i, j \in DOMAIN to_sorted_vec(items) :
          to_sorted_vec(items)[i].key = to_sorted_vec(items)[j].key => i = j

\* C9 witness: a store rebuilt by the capacity filter of prune from more
\* records than max_items
C9_Witness ==
    /\ call.op = "prune"
    /\ call.size_before > call.max_items
    /\ Cardinality(DOMAIN items) = call.max_items
    /\ call.max_items > 1

\* last_seen parses and is not before now - max_days
Fresh(item, t, max_days) ==
    /\ item.last_seen.text = "rfc3339"
    /\ item.last_seen.t >= t - max_days * TicksPerDay

\* C10: after prune every record has a last_seen that parses and is not
\* before now - max_days; and prune removes a record with such a last_seen
\* only when more than max_items such records were in the store, in which
\* case exactly max_items records remain; the records it keeps are
\* unchanged.
C10_AgeFilter ==
    /\ [](call.op = "prune" =>
            \A k \in DOMAIN items : Fresh(items[k], call.now, call.max_days))
    /\ [][call'.op = "prune" =>
            /\ \A k \in DOMAIN items' : k \in DOMAIN items /\ items'[k] = items[k]
            /\ \A k \in DOMAIN items :
                  (Fresh(items[k], call'.now, call'.max_days)
                     /\ k \notin DOMAIN items') =>
                      /\ Cardinality(DOMAIN items') = call'.max_items
                      /\ Cardinality({j \in DOMAIN items :
                            Fresh(items[j], call'.now, call'.max_days)})
                           > call'.max_items]_vars

\* C10 witness: prune of a store that was within max_items has removed a
\* record and left one
C10_Witness ==
    /\ call.op = "prune"
    /\ call.size_before <= call.max_items
    /\ Cardinality(DOMAIN items) < call.size_before
    /\ items # EmptyMap

\* C11: after prune the store holds at most max_items records.  When more
\* than max_items records pass the age filter, exactly max_items remain and
\* no removed record that passed the age filter was observed strictly later
\* than a record that remains, whatever the counts of the records are; when
\* at most max_items pass it, exactly the records that pass it remain.
C11_CapacityFilter ==
    /\ [](call.op = "prune" => Cardinality(DOMAIN items) <= call.max_items)
    /\ [][call'.op = "prune" =>
            LET fresh == {k \in DOMAIN items :
                            Fresh(items[k], call'.now, call'.max_days)}
            IN  /\ Cardinality(fresh) > call'.max_items =>
                      /\ Cardinality(DOMAIN items') = call'.max_items
                      /\ DOMAIN items' \subseteq fresh
                      /\ \A r \in fresh \ DOMAIN items', k \in DOMAIN items' :
                            items[r].last_seen.t <= items[k].last_seen.t
                /\ Cardinality(fresh) <= call'.max_items =>
                      DOMAIN items' = fresh]_vars

\* C11 witness: of two records prune with max_items = 1 has kept the one
\* observed at the time of the call, whose count (5) is the lowest of all
\* candidates
C11_Witness ==
    /\ call.op = "prune"
    /\ call.size_before = 2
    /\ call.max_items = 1
    /\ DOMAIN items = {LinkPlain}
    /\ items[LinkPlain].likes_count = 5
    /\ items[LinkPlain].last_seen.t = call.now

(***************************************************************************)
(* Properties of the selection, checked under SelectSpec                   *)
(***************************************************************************)
\* the later of the parsed updated and published timestamps of a record,
\* None when neither parses
EffectiveTime(r) ==
    LET u == IF r.updated # None /\ r.updated[1].text = "rfc3339"
             THEN <<r.updated[1].t>> ELSE <<>>
        p == IF r.published # None /\ r.published[1].text = "rfc3339"
             THEN <<r.published[1].t>> ELSE <<>>
    IN  IF u # <<>> /\ p # <<>> THEN (IF u[1] > p[1] THEN u ELSE p)
        ELSE IF u # <<>> THEN u ELSE p

\* a may stand before b: its count is larger, or the counts are equal and
\* its effective time is not earlier, a record without one coming last
MayPrecede(a, b) ==
    \/ a.likes_count > b.likes_count
    \/ /\ a.likes_count = b.likes_count
       /\ \/ EffectiveTime(b) = <<>>
          \/ /\ EffectiveTime(a) # <<>>
             /\ EffectiveTime(a)[1] >= EffectiveTime(b)[1]

\* C12: the selection is ordered by count, largest first, and among equal
\* counts by effective time, latest first, where the effective time of a
\* record is the later of its parsed updated and published timestamps and
\* a record with neither comes after those that have one.
C12_Order ==
    call.op = "select" =>
        \A i, j \in DOMAIN out.selected :
            i < j => MayPrecede(out.selected[i], out.selected[j])

\* C13: two selections made on the same store snapshot with the same
\* min_likes and max_feed_entries give the same sequence of records.
C13_Deterministic ==
    [][(call.op = "select" /\ call'.op = "select" /\ items' = items /\ cfg' = cfg)
          => out'.selected = out.selected]_vars

\* the records of the store whose count reaches the threshold
AtLeastMin == {k \in DOMAIN items : items[k].likes_count >= cfg.min_likes}

\* C14: the selection holds only records of the store whose count is at
\* least min_likes, each once; its length is the smaller of max_feed_entries
\* and the number of such records; and a record with such a count is left
\* out only when every selected record has a count at least as large.
C14_FilterAndCut ==
    call.op = "select" =>
        /\ \A i \in DOMAIN out.selected :
              /\ out.selected[i].key \in DOMAIN items
              /\ out.selected[i] = items[out.selected[i].key]
              /\ out.selected[i].likes_count >= cfg.min_likes
        /\ \A i, j \in DOMAIN out.selected :
              out.selected[i].key = out.selected[j].key => i = j
        /\ Len(out.selected) =
              (IF Cardinality(AtLeastMin) < cfg.max_feed_entries
               THEN Cardinality(AtLeastMin) ELSE cfg.max_feed_entries)
        /\ \A k \in AtLeastMin :
              (\A i \in DOMAIN out.selected : out.selected[i].key # k) =>
                  \A i \in DOMAIN out.selected :
                      out.selected[i].likes_count >= items[k].likes_count

\* C14 witness: a store of three records, one below the threshold and two
\* of different counts above it, selected with max_feed_entries = 1: the
\* record with the smaller count is left out
C14_Witness ==
    /\ call.op = "select"
    /\ Cardinality(DOMAIN items) = 3
    /\ Cardinality(AtLeastMin) = 2
    /\ cfg.max_feed_entries = 1
    /\ Len(out.selected) = 1
    /\ \E k \in AtLeastMin : items[k].likes_count < out.selected[1].likes_count

(***************************************************************************)
(* Properties of extract_item_id, checked under ExtractSpec                *)
(***************************************************************************)
\* s holds p at position i
HoldsAt(s, p, i) ==
    i >= 1 /\ i + Len(p) - 1 <= Len(s) /\ SubSeq(s, i, i + Len(p) - 1) = p
Contains(s, p) == \E i \in 1 .. Len(s) : HoldsAt(s, p, i)

\* h is the path component that follows the first "/items/" of link: it
\* stands right after the marker, is not empty, holds none of '/', '?',
\* '#', and is followed by one of them or by the end of the link
IsComponentAfterMarker(link, h) ==
    \E i \in 1 .. Len(link) :
        /\ HoldsAt(link, Marker, i)
        /\ \A j \in 1 .. (i - 1) : ~HoldsAt(link, Marker, j)
        /\ h # <<>>
        /\ HoldsAt(link, h, i + Len(Marker))
        /\ \A n \in DOMAIN h : h[n] \notin {"/", "?", "#"}
        /\ \/ i + Len(Marker) + Len(h) = Len(link) + 1
           \/ link[i + Len(Marker) + Len(h)] \in {"/", "?", "#"}

\* C15: the identity hint of a link is the single path component that
\* follows the items marker, without query and fragment, so it holds no
\* '/', '?' or '#'; "h/u/items/x?r" gives "x"; a link without the marker
\* gives no hint.
C15_IdentityHint ==
    call.op = "extract_item_id" =>
        /\ ~Contains(call.link, Marker) => call.ret = <<>>
        /\ call.ret # <<>> => IsComponentAfterMarker(call.link, call.ret[1])
        /\ call.link = LinkXq => call.ret = <<IdX>>

(***************************************************************************)
(* Further properties of run(), checked under Spec                         *)
(***************************************************************************)
\* the run has ended on a fetched feed document that has no feed element
FailedOnMissingFeed ==
    /\ pc = "failed"
    /\ net.fn = "feed"
    /\ net.outcomes # <<>>
    /\ net.outcomes[Len(net.outcomes)].body = "nofeed"

\* C16: a run that fetches a document without a feed element fails with an
\* error of the Feed kind, the kind of the failures of formatting and
\* writing the output, and exits with its status, which is neither the
\* status of a Config error nor that of a Network error.
C16_MissingFeedIsFeedError ==
    FailedOnMissingFeed =>
        /\ err.kind = "Feed"
        /\ exit_code(err.kind) = exit_code(AppError("Feed", "write", 0).kind)
        /\ exit_code(err.kind) # exit_code("Config")
        /\ exit_code(err.kind) # exit_code("Network")

(***************************************************************************)
(* Properties of the Atom builder, checked under AtomSpec                  *)
(***************************************************************************)
\* the value of attribute name of element el, <<>> when it has none
AttrOf(el, name) ==
    IF \E i \in DOMAIN el.attrs : el.attrs[i][1] = name
    THEN <<el.attrs[CHOOSE i \in DOMAIN el.attrs : el.attrs[i][1] = name][2]>>
    ELSE <<>>

\* list holds an element with this tag that has a text
HasText(list, tag) ==
    \E i \in DOMAIN list : list[i].tag = tag /\ list[i].text # <<>>

\* list holds a link element with this rel, which has an href
HasLink(list, rel) ==
    \E i \in DOMAIN list :
        /\ list[i].tag = "link"
        /\ AttrOf(list[i], "rel") = <<rel>>
        /\ AttrOf(list[i], "href") # <<>>

\* C17: the document of build_feed_xml has one feed element, which holds
\* an id, a title, an updated, a link rel=self and a link rel=alternate,
\* and after them one entry element per input entry, in input order, each
\* holding the id, the title, a link with the href, the updated and a
\* summary of type html of its entry; and default_feed_updated is the
\* greatest updated of the entries, or now when there is none.
C17_AtomDocument ==
    /\ call.op = "build_feed_xml" =>
         LET root == call.ret[1].root
             es == call.feed[1].entries
             head == Len(root.children) - Len(es)
             meta == SubSeq(root.children, 1, head)
         IN  /\ root.tag = "feed"
             /\ head >= 0
             /\ \A i \in DOMAIN meta : meta[i].tag \notin {"feed", "entry"}
             /\ HasText(meta, "id")
             /\ HasText(meta, "title")
             /\ HasText(meta, "updated")
             /\ HasLink(meta, "self")
             /\ HasLink(meta, "alternate")
             /\ \A i \in DOMAIN es :
                  LET el == root.children[head + i]
                  IN  /\ el.tag = "entry"
                      /\ \E j \in DOMAIN el.children :
                            /\ el.children[j].tag = "id"
                            /\ el.children[j].text = <<es[i].id>>
                      /\ \E j \in DOMAIN el.children :
                            /\ el.children[j].tag = "title"
                            /\ el.children[j].text = <<es[i].title>>
                      /\ \E j \in DOMAIN el.children :
                            /\ el.children[j].tag = "link"
                            /\ AttrOf(el.children[j], "href") = <<es[i].link>>
                      /\ \E j \in DOMAIN el.children :
                            /\ el.children[j].tag = "updated"
                            /\ el.children[j].text =
                                 <<[text |-> "rfc3339", t |-> es[i].updated]>>
                      /\ \E j \in DOMAIN el.children :
                            /\ el.children[j].tag = "summary"
                            /\ AttrOf(el.children[j], "type") = <<"html">>
    /\ call.op \in {"default_feed_updated", "build_feed_xml"} =>
         LET es == call.feed[1].entries
             u == call.feed[1].updated
         IN  IF es = <<>> THEN u = call.now
             ELSE /\ \E i \in DOMAIN es : es[i].updated = u
                  /\ \A i \in DOMAIN es : es[i].updated <= u

\* C17 witness: a document of two different entries, the later one first,
\* without a subtitle, dated by the first entry and not by now
C17_Witness ==
    /\ call.op = "build_feed_xml"
    /\ Len(call.feed[1].entries) = 2
    /\ call.feed[1].entries[1].updated > call.feed[1].entries[2].updated
    /\ call.feed[1].updated = call.feed[1].entries[1].updated
    /\ call.feed[1].updated # call.now
    /\ Len(call.ret[1].root.children) = 7
    /\ call.ret[1].root.children[6].tag = "entry"
    /\ call.ret[1].root.children[6].children[1].text = <<call.feed[1].entries[1].id>>

\* the run has fetched, for the article stored under k, a count that
\* reaches the threshold: the only candidates run() hands to merge
FetchedAtLeastMin(k) ==
    \E i \in DOMAIN feed_items :
        /\ feed_items[i].item_id = <<k>>
        /\ feed_items[i].likes_count >= cfg.min_likes

\* the records of the state file the run started from
DiskRecords ==
    IF disk0.state = <<>> THEN {}
    ELSE {disk0.state[1].items[i] : i \in DOMAIN disk0.state[1].items}

AfterSelect ==
    pc \in {"write_out", "write_index", "write_last_build", "write_nojekyll",
            "save", "done"}

\* C18: the merge of a run leaves unchanged every record of the store for
\* which the run has not fetched a count that reaches the threshold, the
\* record of an article fetched again below the threshold included; such a
\* record, while prune keeps it, is the record of the state file, and the
\* selection holds it with its old count when that count reaches the
\* threshold and the selection is not full.
C18_MergeFrame ==
    /\ [][(pc = "enrich" /\ pc' = "prune") =>
            \A k \in DOMAIN items :
                ~FetchedAtLeastMin(k) =>
                    k \in DOMAIN items' /\ items'[k] = items[k]]_vars
    /\ [](AfterSelect =>
            \A k \in DOMAIN items :
                ~FetchedAtLeastMin(k) =>
                    /\ items[k] \in DiskRecords
                    /\ ( /\ items[k].likes_count >= cfg.min_likes
                         /\ Len(out.selected) < cfg.max_feed_entries ) =>
                          \E j \in DOMAIN out.selected :
                              out.selected[j] = items[k])

\* C18 witness: the article x, stored with count 12, was fetched again with
\* a count below min_likes; the run has ended with its record as it was on
\* disk, and the selection holds it
C18_Witness ==
    /\ pc = "done"
    /\ \E i \in DOMAIN feed_items :
          /\ feed_items[i].item_id = <<IdX>>
          /\ feed_items[i].likes_count < cfg.min_likes
    /\ IdX \in DOMAIN items
    /\ items[IdX] = RecX
    /\ \E j \in DOMAIN out.selected : out.selected[j] = RecX

\* C19: prune is a function of its arguments: the set of keys it retains
\* is the same on every execution with this store, now, max_days and
\* max_items, whatever the order in which the map is iterated, also when
\* more records than fit share the last_seen at the capacity boundary.
C19_PruneIsFunction ==
    [][(pc = "prune" /\ pc' = "select") =>
          \A order \in Perms(AgeKept(items, now, cfg.max_stored_days)) :
              DOMAIN prune(items, order, now, cfg.max_stored_days,
                           cfg.max_stored_items) = DOMAIN items']_vars

====
